---- MODULE Spec2Model ----
(***************************************************************************)
(* State-machine model of the AI healthcare assistant (src/app.py): the    *)
(* in-memory user store, the login session, the per-patient medical        *)
(* history folders, the symptom analysis request path and the portal       *)
(* views, one action per button handler.                                   *)
(***************************************************************************)
EXTENDS Integers, Sequences, FiniteSets, TLC

VARIABLES
    users,              \* st.session_state.users: username -> user dict
    logged_in,          \* st.session_state.logged_in
    username,           \* st.session_state.username
    role,               \* st.session_state.role
    selected_folder,    \* st.session_state.selected_folder (key may be absent)
    message,            \* st.error / st.success text left on the page by the last run
    user_input,         \* the text in the symptom text area of the patient portal
    analysis,           \* symptoms_vector and predicted_condition of the last run
    registered,         \* history: the raw password of each successful signup
    submitted           \* history: number of add-record submissions per (patient, folder)

vars == <<users, logged_in, username, role, selected_folder, message, user_input,
          analysis, registered, submitted>>

session == <<logged_in, username, role>>

(***************************************************************************)
(* Python values.                                                          *)
(***************************************************************************)
\* A slot that can hold Python None, or whose key can be absent, holds the empty
\* tuple in that case and the one-element tuple <<value>> otherwise.
None == <<>>

\* a key that is not in a dict / not in st.session_state
Missing == <<>>

Some(value) == <<value>>

ValueOf(slot) == slot[1]

\* A Python dict is an insertion-ordered list of <<key, value>> pairs.
EmptyDict == <<>>

DictKeys(d) == [i \in 1..Len(d) |-> d[i][1]]

DictHas(d, k) == \E i \in 1..Len(d) : d[i][1] = k

DictGet(d, k) == d[CHOOSE i \in 1..Len(d) : d[i][1] = k][2]

DictValues(d) == [i \in 1..Len(d) |-> d[i][2]]

\* d[k] = v : replaces the value of an existing key, appends a new key
DictSet(d, k, v) ==
    IF DictHas(d, k)
    THEN [i \in 1..Len(d) |-> IF d[i][1] = k THEN <<k, v>> ELSE d[i]]
    ELSE Append(d, <<k, v>>)

(***************************************************************************)
(* Text is a sequence of one-character strings, so that str.strip,         *)
(* str.split, str.lower and str.title are computed character by character. *)
(***************************************************************************)
LowerCase == <<"a","b","c","d","e","f","g","h","i","j","k","l","m",
               "n","o","p","q","r","s","t","u","v","w","x","y","z">>

UpperCase == <<"A","B","C","D","E","F","G","H","I","J","K","L","M",
               "N","O","P","Q","R","S","T","U","V","W","X","Y","Z">>

Whitespace == {" ", "\t", "\n"}

IsLower(c) == \E i \in 1..Len(LowerCase) : LowerCase[i] = c

IsUpper(c) == \E i \in 1..Len(UpperCase) : UpperCase[i] = c

IsCased(c) == IsLower(c) \/ IsUpper(c)

ToLower(c) ==
    IF IsUpper(c) THEN LowerCase[CHOOSE i \in 1..Len(UpperCase) : UpperCase[i] = c] ELSE c

ToUpper(c) ==
    IF IsLower(c) THEN UpperCase[CHOOSE i \in 1..Len(LowerCase) : LowerCase[i] = c] ELSE c

\* str.lower()
str_lower(s) == [i \in 1..Len(s) |-> ToLower(s[i])]

\* str.title(): a cased character is upper-cased after an uncased one (or at the
\* start) and lower-cased after a cased one
str_title(s) ==
    [i \in 1..Len(s) |->
        IF i > 1 /\ IsCased(s[i-1]) THEN ToLower(s[i]) ELSE ToUpper(s[i])]

RECURSIVE lstrip(_)
lstrip(s) == IF s # <<>> /\ Head(s) \in Whitespace THEN lstrip(Tail(s)) ELSE s

RECURSIVE rstrip(_)
rstrip(s) ==
    IF s # <<>> /\ s[Len(s)] \in Whitespace THEN rstrip(SubSeq(s, 1, Len(s) - 1)) ELSE s

\* str.strip()
str_strip(s) == rstrip(lstrip(s))

\* str.split(","): one piece per comma plus one, empty pieces kept
RECURSIVE str_split(_)
str_split(s) ==
    IF \A i \in 1..Len(s) : s[i] # ","
    THEN <<s>>
    ELSE LET k == CHOOSE i \in 1..Len(s) :
                      s[i] = "," /\ \A j \in 1..(i-1) : s[j] # ","
         IN  <<SubSeq(s, 1, k - 1)>> \o str_split(SubSeq(s, k + 1, Len(s)))

SeqToSet(q) == {q[i] : i \in 1..Len(q)}

(***************************************************************************)
(* Bounds and input sets of the model.                                     *)
(***************************************************************************)
\* at most this many records are ever stored (bounds the add-record form)
MaxRecords == 2

\* the same bound under the specifications that explore every signup and login
\* form, or every symptom text
MaxRecordsAuth == 1

\* the longest symptom text typed into the symptom text area
MaxTextLen == 3

\* the characters of the symptom texts: a letter, a capital, the separator, a blank
SymptomAlphabet == {"a", "B", ",", " "}

TextsUpTo(n, alphabet) == UNION {[1..k -> alphabet] : k \in 0..n}

Usernames == {"alice", "bob", "drho"}

\* the names typed into the signup and login forms when every password is tried
UsernameInputs == {"", "alice", "drho"}

\* empty, one character too short, just long enough, another valid one
PasswordInputs == {"", "1234567", "12345678", "password2"}

Roles == {"Patient", "Doctor"}

\* the values bcrypt.gensalt() can return
Salts == {"$2b$12$saltA", "$2b$12$saltB"}

FolderInputs == {"Checkups", "Labs"}

\* two readings of str(datetime.datetime.now()), an earlier and a later one; the
\* wall clock is not monotonic, so either can come at any submission
Timestamps == {1, 2}

(***************************************************************************)
(* bcrypt, as an injective salted hash.                                    *)
(***************************************************************************)
hashpw(password, salt) == salt \o "$" \o password

\* bcrypt.checkpw re-hashes the provided password with the salt of the stored hash
checkpw(provided_password, stored_password) ==
    \E salt \in Salts : hashpw(provided_password, salt) = stored_password

(***************************************************************************)
(* Signup, login, logout (src/app.py 29-84).                               *)
(***************************************************************************)
\* the user dict stored at signup
new_user(hashed_password, r) ==
    [password        |-> hashed_password,
     role            |-> r,
     medical_history |-> IF r = "Patient" THEN Some(EmptyDict) ELSE None,
     patients        |-> IF r = "Doctor" THEN Some(<<>>) ELSE None,
     doctors         |-> Missing]

\* signup_error without the "Username already exists." branch
signup_error_no_duplicate_check(store, u, password, confirm_password) ==
    IF u = "" \/ password = "" THEN "Username and password are required"
    ELSE IF password # confirm_password THEN "Passwords don't match"
    ELSE IF Len(password) < 8 THEN "Password must be at least 8 characters"
    ELSE ""

\* signup_error with the length limit one too small
signup_error_short_limit(store, u, password, confirm_password) ==
    IF u = "" \/ password = "" THEN "Username and password are required"
    ELSE IF password # confirm_password THEN "Passwords don't match"
    ELSE IF Len(password) < 7 THEN "Password must be at least 8 characters"
    ELSE IF u \in DOMAIN store THEN "Username already exists."
    ELSE ""

\* the error signup reports for its inputs, "" when it accepts them
signup_error(store, u, password, confirm_password) ==
    IF u = "" \/ password = "" THEN "Username and password are required"
    ELSE IF password # confirm_password THEN "Passwords don't match"
    ELSE IF Len(password) < 8 THEN "Password must be at least 8 characters"
    ELSE IF u \in DOMAIN store THEN "Username already exists."
    ELSE ""

\* st.session_state.users[username] = {...}
store_user(store, u, entry) ==
    [n \in DOMAIN store \cup {u} |-> IF n = u THEN entry ELSE store[n]]

\* salt is the value bcrypt.gensalt() returns in this run
Signup(u, password, confirm_password, r, salt) ==
    /\ ~logged_in
    /\ LET err == signup_error(users, u, password, confirm_password) IN
         IF err # ""
         THEN /\ message' = err
              /\ UNCHANGED <<users, registered>>
         ELSE /\ users' = store_user(users, u, new_user(hashpw(password, salt), r))
              /\ registered' = store_user(registered, u, password)
              /\ message' = "Signup successful! Please login."
    /\ analysis' = None
    /\ UNCHANGED <<logged_in, username, role, selected_folder, user_input, submitted>>

\* credentials_ok without the password check
credentials_ok_any_password(store, u, password) == u \in DOMAIN store

\* whether login accepts the credentials
credentials_ok(store, u, password) ==
    /\ u \in DOMAIN store
    /\ checkpw(password, store[u].password)

Login(u, password) ==
    /\ ~logged_in
    /\ IF credentials_ok(users, u, password)
       THEN /\ logged_in' = TRUE
            /\ username' = u
            /\ role' = users[u].role
            /\ message' = ""
       ELSE /\ message' = "Invalid credentials."
            /\ UNCHANGED <<logged_in, username, role>>
    /\ analysis' = None
    /\ UNCHANGED <<users, selected_folder, user_input, registered, submitted>>

\* a logout that forgets to clear the role
Logout_keeps_role ==
    /\ logged_in
    /\ logged_in' = FALSE
    /\ username' = ""
    /\ message' = ""
    /\ user_input' = <<>>
    /\ analysis' = None
    /\ UNCHANGED <<users, role, selected_folder, registered, submitted>>

Logout ==
    /\ logged_in
    /\ logged_in' = FALSE
    /\ username' = ""
    /\ role' = ""
    /\ message' = ""
    /\ user_input' = <<>>
    /\ analysis' = None
    /\ UNCHANGED <<users, selected_folder, registered, submitted>>

(***************************************************************************)
(* Medical records (src/app.py 87-126, 364-393).                           *)
(***************************************************************************)
\* every record list of a medical_history dict, concatenated in folder order
RECURSIVE all_records(_)
all_records(history) ==
    IF history = <<>> THEN <<>> ELSE Head(history)[2] \o all_records(Tail(history))

\* users[p]["medical_history"] of a patient p
medical_history(p) == ValueOf(users[p].medical_history)

\* every record stored for any patient
StoredRecords ==
    UNION {SeqToSet(all_records(medical_history(p))) :
               p \in {n \in DOMAIN users : users[n].role = "Patient"}}

\* str(uuid4()): an identifier no stored record has
uuid4 == CHOOSE i \in 1..(Cardinality(StoredRecords) + 1) :
             \A r \in StoredRecords : r.id # i

\* the dict built at src/app.py 365-377; file is Missing when nothing was uploaded
new_record(id, doctor, form, timestamp) ==
    [id          |-> id,
     doctor      |-> doctor,
     allergies   |-> form.allergies,
     treatment   |-> form.treatment,
     medications |-> form.medications,
     timestamp   |-> timestamp,
     file        |-> form.uploaded_file]

\* add_record that assigns the folder a new list holding only the new record
add_record_overwrites(history, folder_name, record) ==
    DictSet(history, folder_name, <<record>>)

\* add_record that puts the new record at the front of the folder's list
add_record_prepends(history, folder_name, record) ==
    LET created == IF DictHas(history, folder_name) THEN history
                   ELSE DictSet(history, folder_name, <<>>)
    IN  DictSet(created, folder_name, <<record>> \o DictGet(created, folder_name))

\* src/app.py 379-384: create the folder if it is absent, append the record
add_record(history, folder_name, record) ==
    LET created == IF DictHas(history, folder_name) THEN history
                   ELSE DictSet(history, folder_name, <<>>)
    IN  DictSet(created, folder_name, Append(DictGet(created, folder_name), record))

\* add_doctor without the "not in" guard: every submission appends the doctor
add_doctor_unguarded(doctors, doctor) ==
    Some(Append(IF doctors = Missing THEN <<>> ELSE ValueOf(doctors), doctor))

\* src/app.py 386-390: the patient's "doctors" list, guarded against duplicates
add_doctor(doctors, doctor) ==
    LET current == IF doctors = Missing THEN <<>> ELSE ValueOf(doctors)
    IN  IF doctor \in SeqToSet(current) THEN doctors ELSE Some(Append(current, doctor))

\* patient_list of the doctor portal
patient_list == {n \in DOMAIN users : users[n].role = "Patient"}

\* the add-record form offered to every logged-in user, whatever the role
AddMedicalRecord_any_role(selected_patient, folder_name, form, timestamp, limit) ==
    /\ logged_in
    /\ selected_patient \in patient_list
    /\ Cardinality(StoredRecords) < limit
    /\ LET patient_data == users[selected_patient]
           record == new_record(uuid4, username, form, timestamp)
       IN  users' = [users EXCEPT ![selected_patient] =
                [patient_data EXCEPT
                    !.medical_history = Some(add_record(ValueOf(@), folder_name, record)),
                    !.doctors = add_doctor(@, username)]]
    /\ submitted' = [submitted EXCEPT ![<<selected_patient, folder_name>>] = @ + 1]
    /\ message' = ""
    /\ analysis' = None
    /\ UNCHANGED <<logged_in, username, role, selected_folder, user_input, registered>>

\* limit bounds the number of records the model stores
AddMedicalRecord(selected_patient, folder_name, form, timestamp, limit) ==
    /\ logged_in
    /\ role # "Patient"
    /\ selected_patient \in patient_list
    /\ Cardinality(StoredRecords) < limit
    /\ LET patient_data == users[selected_patient]
           record == new_record(uuid4, username, form, timestamp)
       IN  users' = [users EXCEPT ![selected_patient] =
                [patient_data EXCEPT
                    !.medical_history = Some(add_record(ValueOf(@), folder_name, record)),
                    !.doctors = add_doctor(@, username)]]
    /\ submitted' = [submitted EXCEPT ![<<selected_patient, folder_name>>] = @ + 1]
    /\ message' = ""
    /\ analysis' = None
    /\ UNCHANGED <<logged_in, username, role, selected_folder, user_input, registered>>

\* the folder buttons of the patient portal (src/app.py 220-228)
SelectFolder(folder_name) ==
    /\ logged_in
    /\ role = "Patient"
    /\ DictHas(medical_history(username), folder_name)
    /\ selected_folder' = Some(folder_name)
    /\ message' = ""
    /\ analysis' = None
    /\ UNCHANGED <<users, logged_in, username, role, user_input, registered, submitted>>

(***************************************************************************)
(* Symptom analysis (src/app.py 17, 191-213).                              *)
(***************************************************************************)
\* vectorizer.get_feature_names_out(): the fixed, ordered vocabulary
all_symptoms == << <<"a">>, <<"a"," ","b">>, <<"a","b">>, <<"b">> >>

\* the classes the trained classifier can answer
Conditions == <<"flu", "migraine", "common cold">>

\* user_symptoms without .lower()
user_symptoms_no_lower(text) ==
    LET pieces == str_split(text)
    IN  [i \in 1..Len(pieces) |-> str_strip(pieces[i])]

\* [s.strip().lower() for s in user_input.split(",")]
user_symptoms(text) ==
    LET pieces == str_split(text)
    IN  [i \in 1..Len(pieces) |-> str_lower(str_strip(pieces[i]))]

\* [1 if symptom in user_symptoms else 0 for symptom in all_symptoms]
symptoms_vector(text) ==
    [i \in 1..Len(all_symptoms) |->
        IF all_symptoms[i] \in SeqToSet(user_symptoms(text)) THEN 1 ELSE 0]

RECURSIVE Sum(_)
Sum(v) == IF v = <<>> THEN 0 ELSE Head(v) + Sum(Tail(v))

\* model.predict(vector)[0]: the trained classifier answers one of its classes
\* for every vector of the vocabulary's length
predict(vector) == Conditions[1 + (Sum(vector) % Len(Conditions))]

\* typing into the text area "Describe your symptoms" (src/app.py 187-189)
EnterSymptoms(text) ==
    /\ logged_in
    /\ role = "Patient"
    /\ user_input' = text
    /\ message' = ""
    /\ analysis' = None
    /\ UNCHANGED <<users, logged_in, username, role, selected_folder, registered, submitted>>

\* the button "Analyze Symptoms"
AnalyzeSymptoms ==
    /\ logged_in
    /\ role = "Patient"
    /\ IF str_strip(user_input) = <<>>
       THEN /\ message' = "Please enter your symptoms"
            /\ analysis' = None
       ELSE /\ message' = "Analysis Complete"
            /\ analysis' = Some([user_input          |-> user_input,
                                 symptoms_vector     |-> symptoms_vector(user_input),
                                 predicted_condition |-> predict(symptoms_vector(user_input))])
    /\ UNCHANGED <<users, logged_in, username, role, selected_folder, user_input,
                   registered, submitted>>

\* sorted(records, key=timestamp, reverse=True): stable, newest first
RECURSIVE insert_desc(_, _)
insert_desc(sorted, record) ==
    IF sorted = <<>> THEN <<record>>
    ELSE IF Head(sorted).timestamp >= record.timestamp
         THEN <<Head(sorted)>> \o insert_desc(Tail(sorted), record)
         ELSE <<record>> \o sorted

RECURSIVE sorted_newest_first(_)
sorted_newest_first(records) ==
    IF records = <<>> THEN <<>>
    ELSE insert_desc(sorted_newest_first(SubSeq(records, 1, Len(records) - 1)),
                     records[Len(records)])

\* sorted() that leaves the list in insertion order
unsorted(records) == records

\* the record list under a folder heading of either portal (src/app.py 234-236,
\* 333-335)
sorted_records(records) == sorted_newest_first(records)

\* the folder's records as the patient portal lists them (src/app.py 231-239)
patient_portal_records(p, folder_name) ==
    sorted_records(DictGet(medical_history(p), folder_name))

\* [r for r in folder_records if r["doctor"] == doctor_filter]
RECURSIVE filter_by_doctor(_, _)
filter_by_doctor(records, doctor) ==
    IF records = <<>> THEN <<>>
    ELSE IF Head(records).doctor = doctor
         THEN <<Head(records)>> \o filter_by_doctor(Tail(records), doctor)
         ELSE filter_by_doctor(Tail(records), doctor)

\* the options of the "Filter by doctor" selectbox
doctor_filter_options(p, folder_name) ==
    {"All"} \cup {r.doctor : r \in SeqToSet(DictGet(medical_history(p), folder_name))}

\* the folder's records as the doctor portal lists them (src/app.py 311-337)
doctor_portal_records(p, folder_name, show_all, doctor_filter) ==
    LET folder_records == DictGet(medical_history(p), folder_name)
        filtered_records ==
            IF show_all \/ doctor_filter = "All" THEN folder_records
            ELSE filter_by_doctor(folder_records, doctor_filter)
    IN  sorted_records(filtered_records)

\* the sections display_record renders for a record, in order (src/app.py 87-126)
display_record(record) ==
    <<[section |-> "Date", content |-> record.timestamp],
      [section |-> "Doctor", content |-> record.doctor]>>
    \o (IF str_strip(record.treatment) # <<>>
        THEN <<[section |-> "Treatment Details", content |-> record.treatment]>> ELSE <<>>)
    \o (IF str_strip(record.medications) # <<>>
        THEN <<[section |-> "Prescribed Medications", content |-> record.medications]>>
        ELSE <<>>)
    \o (IF str_strip(record.allergies) # <<>>
        THEN <<[section |-> "Recorded Allergies", content |-> record.allergies]>> ELSE <<>>)
    \o (IF record.file # Missing
        THEN <<[section |-> "Attachments", content |-> ValueOf(record.file).name]>> ELSE <<>>)

\* the loop at src/app.py 153-155 and 269-271: every record with a non-blank
\* allergies field adds a.strip().title() for each a of allergies.split(",")
combined_allergies(records) ==
    UNION {IF str_strip(r.allergies) # <<>>
           THEN {str_title(str_strip(a)) : a \in SeqToSet(str_split(r.allergies))}
           ELSE {} : r \in SeqToSet(records)}

\* "Known Allergies" of the patient portal (src/app.py 139-155)
patient_allergy_summary(p) ==
    combined_allergies(sorted_newest_first(all_records(medical_history(p))))

\* "Known Allergies" of the doctor portal for the selected patient (src/app.py 261-271)
doctor_allergy_summary(selected_patient) ==
    combined_allergies(all_records(medical_history(selected_patient)))

(***************************************************************************)
(* The forms the user can fill in, per specification.                      *)
(***************************************************************************)
NoFile == Missing

Rest == <<"R","e","s","t">>

Nut == <<"n","u","t">>

Aspirin == <<"A","s","p","i","r","i","n">>

\* "peanuts, Dust"
PeanutsDust == <<"p","e","a","n","u","t","s",","," ","D","u","s","t">>

\* "Peanuts, pollen"
PeanutsPollen == <<"P","e","a","n","u","t","s",","," ","p","o","l","l","e","n">>

\* "nut, " : a list typed with a trailing comma
NutComma == <<"n","u","t",","," ">>

ReportPdf == Some([name |-> "report.pdf", bytes |-> "%PDF"])

SignupForms(names, passwords, confirms, roles, salts) ==
    {[username |-> u, password |-> p, confirm_password |-> c, role |-> r, salt |-> s] :
        u \in names, p \in passwords, c \in confirms, r \in roles, s \in salts}

LoginForms(names, passwords) ==
    {[username |-> u, password |-> p] : u \in names, p \in passwords}

\* every signup and login form; one record form, at most MaxRecordsAuth records
AuthInputs ==
    [signups     |-> SignupForms(UsernameInputs, PasswordInputs, PasswordInputs, Roles, Salts),
     logins      |-> LoginForms(UsernameInputs, PasswordInputs),
     folders     |-> {"Checkups"},
     forms       |-> {[allergies |-> <<>>, treatment |-> Rest, medications |-> <<>>,
                       uploaded_file |-> NoFile]},
     timestamps  |-> {1},
     texts       |-> {<<>>, <<"a">>},
     max_records |-> MaxRecordsAuth]

\* alice signs up as a patient, drho as a doctor, bob as either, each with one
\* valid password; every folder, form and timestamp of the add-record form, at
\* most MaxRecords records
RecordInputs ==
    [signups     |-> SignupForms({"alice", "bob"}, {"12345678"}, {"12345678"}, {"Patient"},
                                 {"$2b$12$saltA"})
                     \cup SignupForms({"bob", "drho"}, {"12345678"}, {"12345678"}, {"Doctor"},
                                      {"$2b$12$saltA"}),
     logins      |-> LoginForms(Usernames, {"12345678"}),
     folders     |-> FolderInputs,
     forms       |-> {[allergies |-> <<>>, treatment |-> Rest, medications |-> <<>>,
                       uploaded_file |-> NoFile],
                      [allergies |-> Nut, treatment |-> <<" ">>, medications |-> Aspirin,
                       uploaded_file |-> ReportPdf]},
     timestamps  |-> Timestamps,
     texts       |-> {<<"a">>},
     max_records |-> MaxRecords]

\* alice is a patient and drho a doctor; every symptom text of at most
\* MaxTextLen characters; one record form
SymptomInputs ==
    [signups     |-> SignupForms({"alice"}, {"12345678"}, {"12345678"}, {"Patient"},
                                 {"$2b$12$saltA"})
                     \cup SignupForms({"drho"}, {"12345678"}, {"12345678"}, {"Doctor"},
                                      {"$2b$12$saltA"}),
     logins      |-> LoginForms({"alice", "drho"}, {"12345678"}),
     folders     |-> {"Checkups"},
     forms       |-> {[allergies |-> <<>>, treatment |-> Rest, medications |-> <<>>,
                       uploaded_file |-> NoFile]},
     timestamps  |-> {1},
     texts       |-> TextsUpTo(MaxTextLen, SymptomAlphabet),
     max_records |-> MaxRecordsAuth]

\* alice is a patient and drho a doctor; allergy lists as the doctor may type
\* them, into either folder, at most MaxRecords records
AllergyInputs ==
    [signups     |-> SignupForms({"alice"}, {"12345678"}, {"12345678"}, {"Patient"},
                                 {"$2b$12$saltA"})
                     \cup SignupForms({"drho"}, {"12345678"}, {"12345678"}, {"Doctor"},
                                      {"$2b$12$saltA"}),
     logins      |-> LoginForms({"alice", "drho"}, {"12345678"}),
     folders     |-> FolderInputs,
     forms       |-> {[allergies |-> a, treatment |-> Rest, medications |-> <<>>,
                       uploaded_file |-> NoFile] :
                          a \in {<<>>, PeanutsDust, PeanutsPollen, NutComma}},
     timestamps  |-> Timestamps,
     texts       |-> {<<>>},
     max_records |-> MaxRecords]

Init ==
    /\ users = <<>>
    /\ logged_in = FALSE
    /\ username = ""
    /\ role = ""
    /\ selected_folder = Missing
    /\ message = ""
    /\ user_input = <<>>
    /\ analysis = None
    /\ registered = <<>>
    /\ submitted = [t \in Usernames \X FolderInputs |-> 0]

NextOn(I) ==
    \/ \E f \in I.signups :
          Signup(f.username, f.password, f.confirm_password, f.role, f.salt)
    \/ \E f \in I.logins : Login(f.username, f.password)
    \/ Logout
    \/ \E p \in Usernames, f \in I.folders, form \in I.forms, t \in I.timestamps :
          AddMedicalRecord(p, f, form, t, I.max_records)
    \/ \E f \in FolderInputs : SelectFolder(f)
    \/ \E text \in I.texts : EnterSymptoms(text)
    \/ AnalyzeSymptoms

Next == NextOn(AuthInputs)

Spec == Init /\ [][Next]_vars

NextRecords == NextOn(RecordInputs)

NextAllergies == NextOn(AllergyInputs)

SpecAllergies == Init /\ [][NextAllergies]_vars

NextSymptoms == NextOn(SymptomInputs)

SpecSymptoms == Init /\ [][NextSymptoms]_vars

SpecRecords == Init /\ [][NextRecords]_vars

(***************************************************************************)
(* Signup, login and the session.                                          *)
(***************************************************************************)
SignupErrors ==
    {"Username and password are required", "Passwords don't match",
     "Password must be at least 8 characters", "Username already exists."}

SignupOf(f) == Signup(f.username, f.password, f.confirm_password, f.role, f.salt)

\* C1: a signup with a username that is already in the user store fails, whatever
\* the password, confirmation and role, and leaves the user store as it was (no
\* entry overwritten, none added).
C1_DuplicateSignupFails ==
    [][\/ users' = users /\ message' \in SignupErrors
       \/ \A f \in AuthInputs.signups : ~(f.username \in DOMAIN users /\ SignupOf(f))]_vars

\* a signup was refused for its username while users were stored
C1_Witness == message = "Username already exists." /\ DOMAIN users # {}

\* C2: a signup with an empty username or password, a confirmation that differs,
\* or a password of fewer than 8 characters fails, stores nothing and leaves the
\* session (logged_in, username, role) as it was.
C2_InvalidSignupStoresNothing ==
    [][\/ users' = users /\ session' = session /\ message' \in SignupErrors
       \/ \A f \in AuthInputs.signups :
             ~(/\ \/ f.username = ""
                  \/ f.password = ""
                  \/ f.password # f.confirm_password
                  \/ Len(f.password) < 8
               /\ SignupOf(f))]_vars

\* a too-short password was refused while a user was stored
C2_Witness == message = "Password must be at least 8 characters" /\ DOMAIN users # {}

\* C3: for a stored user, login with the password given at signup succeeds and
\* sets logged_in, username and the stored role; login with any other password,
\* or an unknown username, fails and leaves the session as it was; the stored
\* password value is never the raw password.
C3_Login ==
    [][/\ \A u \in DOMAIN users : users[u].password # registered[u]
       /\ \A u \in DOMAIN users' : users'[u].password # registered'[u]
       /\ \A f \in AuthInputs.logins :
            Login(f.username, f.password) =>
                IF f.username \in DOMAIN users /\ f.password = registered[f.username]
                THEN /\ logged_in' = TRUE
                     /\ username' = f.username
                     /\ role' = users[f.username].role
                ELSE /\ session' = session
                     /\ message' = "Invalid credentials."]_vars

\* a stored user is logged in under the stored role
C3_Witness == logged_in /\ username \in DOMAIN users /\ role = users[username].role

\* C7: the session is LoggedOut (flag false, username and role empty) or LoggedIn
\* (as a stored user, under the stored role); it becomes LoggedIn only by a
\* successful login, LoggedOut only by logout, which clears username and role;
\* signup and every other step leave logged_in, username and role as they were.
SessionLoggedOut == ~logged_in /\ username = "" /\ role = ""

SessionLoggedIn == logged_in /\ username \in DOMAIN users /\ role = users[username].role

C7_SessionStateMachine ==
    [][/\ SessionLoggedOut \/ SessionLoggedIn
       /\ session' # session =>
            \/ /\ SessionLoggedOut
               /\ SessionLoggedIn'
               /\ \E f \in AuthInputs.logins :
                     Login(f.username, f.password) /\ credentials_ok(users, f.username, f.password)
            \/ /\ SessionLoggedIn
               /\ SessionLoggedOut'
               /\ Logout
       /\ session' = session \/ \A f \in AuthInputs.signups : ~SignupOf(f)]_vars

\* logged out again after a doctor's session in which a record was stored
C7_Witness == SessionLoggedOut /\ StoredRecords # {}

(***************************************************************************)
(* The record store and its views.                                         *)
(***************************************************************************)
NonIncreasing(records) ==
    \A i \in 1..(Len(records) - 1) : records[i].timestamp >= records[i + 1].timestamp

IsPrefix(a, b) == Len(a) <= Len(b) /\ SubSeq(b, 1, Len(a)) = a

Folders(p) == SeqToSet(DictKeys(medical_history(p)))

C5_AppendOnly ==
    [][\A p \in patient_list :
          /\ p \in patient_list'
          /\ \A f \in Folders(p) :
                /\ DictHas(medical_history(p)', f)
                /\ IsPrefix(DictGet(medical_history(p), f), DictGet(medical_history(p)', f))]_vars

\* a record was appended to a folder that already held one
C5_Witness ==
    \E p \in patient_list : \E f \in Folders(p) : Len(DictGet(medical_history(p), f)) >= 2

AddMedicalRecordOf(p, f, form, t) == AddMedicalRecord(p, f, form, t, RecordInputs.max_records)

\* C6: an add-record submission for patient p and folder f creates f if absent
\* and appends the new record, with the submitted fields and the doctor's name,
\* to the end of that list alone; every other folder of p and every other user
\* is unchanged; p's portal then lists folder f with that record, showing the
\* submitted treatment and no attachment when no file was uploaded.
C6_AddRecordFrame ==
    [][\A p \in Usernames, f \in RecordInputs.folders, form \in RecordInputs.forms,
          t \in RecordInputs.timestamps :
          \* (the first conjunct is one of AddMedicalRecord's own, put first)
          (submitted'[<<p, f>>] = submitted[<<p, f>>] + 1 /\ AddMedicalRecordOf(p, f, form, t)) =>
             LET old == medical_history(p)
                 new == medical_history(p)'
                 before == IF DictHas(old, f) THEN DictGet(old, f) ELSE <<>>
                 after == DictGet(new, f)
                 record == after[Len(after)]
             IN  /\ DictHas(new, f)
                 /\ Len(after) = Len(before) + 1
                 /\ SubSeq(after, 1, Len(before)) = before
                 /\ record.treatment = form.treatment
                 /\ record.medications = form.medications
                 /\ record.allergies = form.allergies
                 /\ record.file = form.uploaded_file
                 /\ record.timestamp = t
                 /\ record.doctor = username
                 /\ \A r \in StoredRecords : r.id # record.id
                 /\ SeqToSet(DictKeys(new)) = SeqToSet(DictKeys(old)) \cup {f}
                 /\ \A g \in SeqToSet(DictKeys(old)) \ {f} : DictGet(new, g) = DictGet(old, g)
                 /\ \A q \in DOMAIN users \ {p} : users'[q] = users[q]
                 /\ DOMAIN users' = DOMAIN users
                 /\ record \in SeqToSet(patient_portal_records(p, f)')
                 /\ str_strip(form.treatment) # <<>> =>
                       \E section \in SeqToSet(display_record(record)) :
                          /\ section.section = "Treatment Details"
                          /\ section.content = form.treatment
                 /\ form.uploaded_file = NoFile =>
                       \A section \in SeqToSet(display_record(record)) :
                          section.section # "Attachments"]_vars

\* the end-to-end case: a folder of a patient who has another folder, and where
\* another patient has records, ends with a record with treatment "Rest" and no file
C6_Witness ==
    \E p \in patient_list : \E f \in Folders(p) :
        LET records == DictGet(medical_history(p), f)
        IN  /\ records[Len(records)].treatment = Rest
            /\ records[Len(records)].file = NoFile
            /\ \/ Cardinality(Folders(p)) = 2
               \/ \E q \in patient_list \ {p} : Folders(q) # {}

\* C8: the add-record step is enabled only in a logged-in session of role Doctor;
\* the doctor of every stored record is a registered user of role Doctor; and no
\* step taken in a Patient session changes the user store (so no medical
\* history).
RecordsWrittenByDoctors ==
    \A r \in StoredRecords : r.doctor \in DOMAIN users /\ users[r.doctor].role = "Doctor"

C8_PatientsCannotAddRecords ==
    [][/\ RecordsWrittenByDoctors
       /\ RecordsWrittenByDoctors'
       /\ (logged_in /\ role = "Patient") => users' = users
       /\ \/ logged_in /\ role = "Doctor"
          \/ \A p \in Usernames, f \in RecordInputs.folders, form \in RecordInputs.forms,
                t \in RecordInputs.timestamps : ~AddMedicalRecordOf(p, f, form, t)]_vars

\* a patient with stored records is logged in and has just run an analysis
C8_Witness ==
    /\ logged_in
    /\ role = "Patient"
    /\ Folders(username) # {}
    /\ analysis # None

(***************************************************************************)
(* The symptom analysis.                                                   *)
(***************************************************************************)
Blank(text) == \A i \in 1..Len(text) : text[i] \in Whitespace

\* the pieces of text between commas: the comma-free stretches that begin at the
\* start of the text or after a comma and end at the end or before a comma
CommaSeparated(text) ==
    {SubSeq(text, i, j) : <<i, j>> \in
        {<<i, j>> \in (1..(Len(text) + 1)) \X (0..Len(text)) :
            /\ j >= i - 1
            /\ i = 1 \/ text[i - 1] = ","
            /\ j = Len(text) \/ text[j + 1] = ","
            /\ \A k \in i..j : text[k] # ","}}

\* token is piece without its leading and trailing whitespace
IsTrimmed(token, piece) ==
    \E i \in 1..(Len(piece) + 1), j \in 0..Len(piece) :
        /\ j >= i - 1
        /\ token = SubSeq(piece, i, j)
        /\ \A k \in (1..(i - 1)) \cup ((j + 1)..Len(piece)) : piece[k] \in Whitespace
        /\ (token = <<>> /\ i = 1 /\ j = 0 /\ Blank(piece)) \/
           (token # <<>> /\ token[1] \notin Whitespace /\ token[Len(token)] \notin Whitespace)

\* symptom is the lower-cased, trimmed form of one of the comma-separated pieces
IsInputToken(symptom, text) ==
    \E piece \in CommaSeparated(text) :
        \E i \in 1..(Len(piece) + 1), j \in 0..Len(piece) :
            /\ j >= i - 1
            /\ IsTrimmed(SubSeq(piece, i, j), piece)
            /\ symptom = str_lower(SubSeq(piece, i, j))

\* C9: a symptom text that is empty or only whitespace is rejected and no vector
\* or prediction is made; for any other text the vector given to the classifier
\* has the vocabulary's length, 1 at position i exactly when all_symptoms[i] is
\* one of the comma-separated, trimmed, lower-cased tokens of the text and 0
\* otherwise, and a label is produced (also when the vector is all zeros).
C9_SymptomVector ==
    [][AnalyzeSymptoms =>
          IF Blank(user_input)
          THEN analysis' = None /\ message' = "Please enter your symptoms"
          ELSE /\ analysis' # None
               /\ LET a == ValueOf(analysis')
                  IN  /\ a.user_input = user_input
                      /\ Len(a.symptoms_vector) = Len(all_symptoms)
                      /\ \A i \in 1..Len(all_symptoms) :
                            a.symptoms_vector[i] =
                               IF IsInputToken(all_symptoms[i], user_input) THEN 1 ELSE 0
                      /\ a.predicted_condition \in SeqToSet(Conditions)]_vars

\* an analysis of a text with two recognised tokens: two 1-entries in the vector
C9_Witness ==
    /\ analysis # None
    /\ Sum(ValueOf(analysis).symptoms_vector) = 2
    /\ ValueOf(analysis).symptoms_vector[1] = 1
    /\ ValueOf(analysis).symptoms_vector[4] = 1

\* an analysis of a text with no recognised token: the all-zero vector and a label
C9_UnrecognisedAnalysed ==
    /\ analysis # None
    /\ Sum(ValueOf(analysis).symptoms_vector) = 0
    /\ ValueOf(analysis).predicted_condition \in SeqToSet(Conditions)

(***************************************************************************)
(* The allergy summary.                                                    *)
(***************************************************************************)
\* piece without its leading and trailing whitespace
Trimmed(piece) ==
    CHOOSE token \in {SubSeq(piece, i, j) : i \in 1..(Len(piece) + 1), j \in 0..Len(piece)} :
        IsTrimmed(token, piece)

\* the allergies named in a comma-separated list: its trimmed, non-empty items
AllergyTokens(text) ==
    {Trimmed(piece) : piece \in CommaSeparated(text)} \ {<<>>}

\* the deduplicated set of the title-cased allergy tokens of all records in all
\* folders of patient p
TitleCasedAllergies(p) ==
    UNION {{str_title(token) : token \in AllergyTokens(r.allergies)} :
              r \in SeqToSet(all_records(medical_history(p)))}

\* C10: for any patient, the allergy summary of the patient portal and that of
\* the doctor portal are exactly the deduplicated set of the trimmed, title-cased
\* comma-separated allergy tokens over all records in all of the patient's
\* folders (whatever the order in which the records were added).
C10_AllergySummary ==
    \A p \in patient_list :
        /\ patient_allergy_summary(p) = TitleCasedAllergies(p)
        /\ doctor_allergy_summary(p) = TitleCasedAllergies(p)

\* the lists in which every item between commas names an allergy
WellFormedList(text) == Blank(text) \/ \A piece \in CommaSeparated(text) : ~Blank(piece)

\* what the code does meet: while every stored allergies field is a well-formed
\* list, both summaries are the set of C10
C10_SummaryOfWellFormedLists ==
    \A p \in patient_list :
        (\A r \in SeqToSet(all_records(medical_history(p))) : WellFormedList(r.allergies))
            => /\ patient_allergy_summary(p) = TitleCasedAllergies(p)
               /\ doctor_allergy_summary(p) = TitleCasedAllergies(p)

\* the two records of the example, "peanuts, Dust" and "Peanuts, pollen", give
\* exactly Peanuts, Dust and Pollen
C10_ExampleReached ==
    \E p \in patient_list :
        /\ {r.allergies : r \in SeqToSet(all_records(medical_history(p)))}
              = {PeanutsDust, PeanutsPollen}
        /\ patient_allergy_summary(p)
              = {<<"P","e","a","n","u","t","s">>, <<"D","u","s","t">>, <<"P","o","l","l","e","n">>}

(***************************************************************************)
(* The doctor-patient relationship lists.                                  *)
(***************************************************************************)
\* how many times x occurs in a list
Occurrences(list, x) == Cardinality({i \in 1..Len(list) : list[i] = x})

\* users[p].get("doctors", []) of a patient, users[d]["patients"] of a doctor
DoctorsOf(p) == IF users[p].doctors = Missing THEN <<>> ELSE ValueOf(users[p].doctors)
PatientsOf(d) == ValueOf(users[d].patients)

doctor_list == {n \in DOMAIN users : users[n].role = "Doctor"}

\* the number of add-record submissions of doctor d for patient p (records are
\* only ever appended)
SubmissionsBy(d, p) ==
    Cardinality({r \in SeqToSet(all_records(medical_history(p))) : r.doctor = d})

patient_portal_lookup ==
    /\ logged_in
    /\ role = "Patient"
    /\ medical_history(username) # EmptyDict
    /\ selected_folder # Missing

\* C12: whenever a Patient is logged in, has a non-empty medical history and
\* selected_folder is set, selected_folder is a folder name of the logged-in
\* patient's own medical history, so the lookup of the patient portal never
\* fails, also after another patient selected a folder and logged out.
C12_SelectedFolderValid ==
    patient_portal_lookup => DictHas(medical_history(username), ValueOf(selected_folder))

====
